---- MODULE Spec2Model ----
(***************************************************************************)
(* Study planner (src/index.tsx): the schedule normalizer inside           *)
(* processSyllabus, the completion update inside updateTopicTiming, the    *)
(* clock helper addMinutes, and the screen events that drive them.         *)
(*                                                                         *)
(* Representation.                                                         *)
(*  - A JavaScript number-or-absent value is a record [t, v]: t is         *)
(*    "number", "NaN", "undefined" or "null"; v is the integer when t is   *)
(*    "number" and 0 otherwise.                                            *)
(*  - A clock string "H:MM AM" is the record [hour, min, period] of the    *)
(*    three things the code parses out of it and prints into it.  The      *)
(*    printed minute is padded to two characters, which Number() undoes,   *)
(*    so two strings are equal exactly when the three fields are.          *)
(*  - A text (topic, summary) is a tuple; <<>> is the empty or missing     *)
(*    text, which is what the filter tests.                                *)
(***************************************************************************)
EXTENDS Integers, Sequences, FiniteSets, TLC

VARIABLES
    studyPlan,          \* useState<Topic[]>, line 64
    currentTopicIndex,  \* useState<number>, line 65 (0-based)
    loading,            \* useState<boolean>, line 63
    prompt,             \* topic id held by the open Alert.prompt, 0 when none
    inflight,           \* update_timing requests awaiting their reply
    sent,               \* number of update_timing requests issued so far
    responses,          \* number of /process replies taken so far
    applied,            \* history: per topic, how often the update was applied
    last,               \* history: the last setStudyPlan call and the plan before it
    showQnA,            \* useState<boolean>, line 69: the quiz modal is open
    selectedTopicForQnA, \* useState<Topic | null>, line 70: the quiz on screen
    selectedAnswers,    \* useState<{[key: number]: string}>, line 71
    quizResults,        \* history: what the last evaluateAnswers call computed
    clock,              \* history: an addMinutes call, its arguments and results
    race                \* history: the plan and the two requests of a reply race

\* The variables the planner's plan actions leave alone.
aside == <<showQnA, selectedTopicForQnA, selectedAnswers, quizResults, clock, race>>

vars == <<studyPlan, currentTopicIndex, loading, prompt, inflight, sent,
          responses, applied, last, showQnA, selectedTopicForQnA,
          selectedAnswers, quizResults, clock, race>>

----------------------------------------------------------------------------
\* Bounds of the model.

MaxRecords == 3      \* records in a raw schedule given to the normalizer alone
MaxTopics == 3       \* topics in the schedule of a planner session
MaxRequests == 2     \* update_timing requests issued in one session
MaxCompletions == 2  \* completions applied to one plan by the engine
MaxResponses == 1    \* /process replies taken in one session
MaxQuestions == 2    \* questions in a quiz

----------------------------------------------------------------------------
\* JavaScript values.

Num(n) == [t |-> "number", v |-> n]
NaN == [t |-> "NaN", v |-> 0]
Undefined == [t |-> "undefined", v |-> 0]
Null == [t |-> "null", v |-> 0]

IsNum(x) == x.t = "number"

\* ToNumber: undefined -> NaN, null -> 0.
ToNumber(x) ==
    CASE x.t = "number" -> x
      [] x.t = "null" -> Num(0)
      [] OTHER -> NaN

\* Truthiness of a number-or-absent value: 0, NaN, undefined, null are falsy.
Truthy(x) == x.t = "number" /\ x.v # 0

\* a || b
OrElse(a, b) == IF Truthy(a) THEN a ELSE b

\* a + b on numbers-or-absent
JsAdd(a, b) ==
    IF IsNum(ToNumber(a)) /\ IsNum(ToNumber(b))
    THEN Num(ToNumber(a).v + ToNumber(b).v)
    ELSE NaN

\* a - b
JsSub(a, b) ==
    IF IsNum(ToNumber(a)) /\ IsNum(ToNumber(b))
    THEN Num(ToNumber(a).v - ToNumber(b).v)
    ELSE NaN

\* a > 0 (false for NaN)
JsPositive(a) == IsNum(ToNumber(a)) /\ ToNumber(a).v > 0

\* JavaScript's a % n for n > 0: the result takes the sign of a.
JsRem(a, n) == IF a >= 0 THEN a % n ELSE 0 - ((0 - a) % n)

----------------------------------------------------------------------------
\* Clock strings.

Clock(h, m, p) == [hour |-> h, min |-> m, period |-> p]

\* addMinutes, lines 314-323.
addMinutes(timeStr, minutes) ==
    LET hour == timeStr.hour
        min == timeStr.min
        period == timeStr.period
        totalMinutes == hour * 60 + min + minutes
                        + (IF period = "PM" /\ hour # 12 THEN 720 ELSE 0)
        h == JsRem(totalMinutes \div 60, 12)
        newHour == IF h = 0 THEN 12 ELSE h
        newMin == JsRem(totalMinutes, 60)
        newPeriod == IF totalMinutes >= 720 THEN "PM" ELSE "AM"
    IN  Clock(newHour, newMin, newPeriod)

----------------------------------------------------------------------------
\* The normalizer, lines 163-196.

\* .filter(item => item.topic && item.summary), line 164
Qualifies(item) == item.topic # <<>> /\ item.summary # <<>>

\* The search taking the last match instead of the first.
FindQna_Last(schedule, item) ==
    LET hits == {j \in 1..Len(schedule) :
                    /\ schedule[j].topic_id = item.topic_id
                    /\ schedule[j].type = "qna"}
    IN  IF hits = {} THEN 0 ELSE CHOOSE j \in hits : \A k \in hits : j >= k

\* response.data.schedule.find(qna => qna.topic_id === item.topic_id &&
\* qna.type === "qna"), lines 167-169: the index of the first match, 0 if none.
FindQna(schedule, item) ==
    LET hits == {j \in 1..Len(schedule) :
                    /\ schedule[j].topic_id = item.topic_id
                    /\ schedule[j].type = "qna"}
    IN  IF hits = {} THEN 0 ELSE CHOOSE j \in hits : \A k \in hits : j <= k

\* The backend's id kept instead of the position.
NewTopicId_Backend(item, index) == item.topic_id

\* topic_id: index + 1, line 172; index is map's 0-based index.
NewTopicId(item, index) == index + 1

\* The object literal of lines 171-195.
BuildTopic(schedule, item, index) ==
    LET q == FindQna(schedule, item)
        qnaSession == IF q = 0 THEN item ELSE schedule[q]
    IN  [ topic_id |-> NewTopicId(item, index),
          topic |-> item.topic,
          start_time |-> item.start_time,
          \* a clock string is non-empty, hence truthy
          end_time |-> IF q # 0 THEN qnaSession.end_time ELSE item.end_time,
          allocated_time |->
              JsAdd(item.allocated_time,
                    IF q # 0 THEN OrElse(qnaSession.duration, Num(0)) ELSE Num(0)),
          completed |-> FALSE,
          summary |-> item.summary,
          qna |-> item.qna,
          suggested_time |-> OrElse(item.allocated_time, Num(30)),
          sessions |->
              <<[type |-> "study",
                 start_time |-> item.start_time,
                 end_time |-> item.end_time,
                 duration |-> OrElse(item.allocated_time, Num(30))]>>
              \o (IF q # 0
                  THEN <<[type |-> "qna",
                          start_time |-> qnaSession.start_time,
                          end_time |-> qnaSession.end_time,
                          duration |-> qnaSession.duration]>>
                  ELSE <<>>) ]

\* transformedPlan, lines 163-196
TransformedPlan(schedule) ==
    LET kept == SelectSeq(schedule, Qualifies)
    IN  [i \in 1..Len(kept) |-> BuildTopic(schedule, kept[i], i - 1)]

----------------------------------------------------------------------------
\* The completion update, lines 259-276.

\* findIndex with a miss clamped to the first index.
findIndex_MissIsFirst(plan, topicId) ==
    LET hits == {j \in 1..Len(plan) : plan[j].topic_id = topicId}
    IN  IF hits = {} THEN IF Len(plan) > 0 THEN 0 ELSE 0 - 1
        ELSE (CHOOSE j \in hits : \A k \in hits : j <= k) - 1

\* newPlan.findIndex(t => t.topic_id === topicId), line 261: 0-based, -1 if none
findIndex(plan, topicId) ==
    LET hits == {j \in 1..Len(plan) : plan[j].topic_id = topicId}
    IN  IF hits = {} THEN 0 - 1
        ELSE (CHOOSE j \in hits : \A k \in hits : j <= k) - 1

\* The guard as timeSaved !== 0: an overrun shifts too.
FinishedEarly_OrLate(timeSaved) == IsNum(timeSaved) /\ timeSaved.v # 0

\* if (timeSaved > 0), line 268
FinishedEarly(timeSaved) == JsPositive(timeSaved)

\* The loop started at the completed topic itself.
FirstShifted_Inclusive(topicIndex) == topicIndex

\* let i = topicIndex + 1, line 269 (0-based)
FirstShifted(topicIndex) == topicIndex + 1

\* The updater with a shift loop that leaves completed topics where they are.
UpdateTopicTiming_SkipCompleted(prev, topicId, actualTime) ==
    LET topicIndex == findIndex(prev, topicId)
    IN  IF topicIndex >= 0
        THEN LET timeSaved ==
                     JsSub(prev[topicIndex + 1].allocated_time, Num(actualTime))
             IN  [j \in 1..Len(prev) |->
                     IF j - 1 = topicIndex
                     THEN [prev[j] EXCEPT !.allocated_time = Num(actualTime),
                                          !.completed = TRUE]
                     ELSE IF /\ FinishedEarly(timeSaved)
                             /\ j - 1 >= FirstShifted(topicIndex)
                             /\ ~prev[j].completed
                          THEN [prev[j] EXCEPT
                                   !.start_time = addMinutes(@, 0 - timeSaved.v),
                                   !.end_time = addMinutes(@, 0 - timeSaved.v)]
                          ELSE prev[j]]
        ELSE prev

\* The updater handed to setStudyPlan, lines 259-276.  Plans are 1-based
\* sequences here, so the topic at JavaScript index i is plan[i + 1].
UpdateTopicTiming(prev, topicId, actualTime) ==
    LET topicIndex == findIndex(prev, topicId)
    IN  IF topicIndex >= 0
        THEN LET timeSaved ==
                     JsSub(prev[topicIndex + 1].allocated_time, Num(actualTime))
                 shifted(t) ==
                     [t EXCEPT !.start_time = addMinutes(@, 0 - timeSaved.v),
                               !.end_time = addMinutes(@, 0 - timeSaved.v)]
                 completedTopic(t) ==
                     [t EXCEPT !.allocated_time = Num(actualTime),
                               !.completed = TRUE]
             IN  [j \in 1..Len(prev) |->
                     LET t == IF j - 1 = topicIndex
                              THEN completedTopic(prev[j])
                              ELSE prev[j]
                     IN  IF FinishedEarly(timeSaved) /\ j - 1 >= FirstShifted(topicIndex)
                         THEN shifted(t)
                         ELSE t]
        ELSE prev

\* parseInt on the text of the numeric prompt, line 301: a text is a sequence
\* of decimal digits; parseInt("") is NaN.
RECURSIVE DigitsValue(_)
DigitsValue(text) ==
    IF text = <<>> THEN 0
    ELSE DigitsValue(SubSeq(text, 1, Len(text) - 1)) * 10 + text[Len(text)]

parseInt(text) == IF text = <<>> THEN NaN ELSE Num(DigitsValue(text))

----------------------------------------------------------------------------
\* The quiz, lines 332-371 and 475-487.  selectedAnswers is a function from
\* the answered 0-based question indices to option keys.

\* option[0].toLowerCase(), line 476: an option is [label, text], label being
\* the first character of its string.
ToLowerCase(ch) ==
    CASE ch = "A" -> "a" [] ch = "B" -> "b" [] ch = "C" -> "c"
      [] ch = "D" -> "d" [] OTHER -> ch

OptionKey(option) == ToLowerCase(option.label)

\* selectedAnswers[index], lines 344 and 349: "undefined" for a missing key.
AnswerAt(answers, index) ==
    IF index \in DOMAIN answers THEN answers[index] ELSE "undefined"

\* {...prev, [questionIndex]: optionKey}, lines 333-336
WithAnswer(prev, questionIndex, optionKey) ==
    [i \in DOMAIN prev \cup {questionIndex} |->
        IF i = questionIndex THEN optionKey ELSE prev[i]]

\* An unanswered question counted as correct.
IsCorrect_Lenient(selected, correct) ==
    selected = "undefined" \/ selected = correct

\* selectedAnswers[index] === qna.correct, line 344
IsCorrect(selected, correct) == selected = correct

\* The map callback of lines 343-352 over the whole quiz, and score.
EvaluateQuiz(quiz, answers) ==
    LET results ==
            [i \in 1..Len(quiz) |->
                [question |-> quiz[i].question,
                 correct |-> quiz[i].correct,
                 selected |-> AnswerAt(answers, i - 1),
                 isCorrect |-> IsCorrect(AnswerAt(answers, i - 1), quiz[i].correct)]]
    IN  [score |-> Cardinality({i \in 1..Len(quiz) : results[i].isCorrect}),
         results |-> results]

----------------------------------------------------------------------------
\* What the backend sends: a schedule is a run of back-to-back sessions from
\* a start time.  A slot is [shape, id, d]: the kind of record, its backend
\* topic_id and its length in minutes.

\* The 12-hour clock string of m minutes after midnight.
ClockOf(m) ==
    LET h == (m \div 60) % 12
    IN  Clock(IF h = 0 THEN 12 ELSE h, m % 60,
              IF m % 1440 >= 720 THEN "PM" ELSE "AM")

\* Minutes after midnight of a 12-hour clock string.
ClockMinutes(t) ==
    (t.hour % 12) * 60 + t.min + (IF t.period = "PM" THEN 720 ELSE 0)

ValidClock(t) ==
    /\ t.hour \in 1..12
    /\ t.min \in 0..59
    /\ t.period \in {"AM", "PM"}

RECURSIVE SlotStart(_, _, _)
SlotStart(start, slots, i) ==
    IF i = 1 THEN start ELSE SlotStart(start, slots, i - 1) + slots[i - 1].d

RawRecord(slot, i, s) ==
    LET titled == slot.shape \in {"study", "study_noalloc", "study_null",
                                  "nosummary", "qna_titled"}
        summarized == slot.shape \in {"study", "study_noalloc", "study_null",
                                      "qna_titled"}
    IN  [ type |-> CASE slot.shape \in {"qna", "qna_titled"} -> "qna"
                     [] slot.shape = "break" -> "break"
                     [] OTHER -> "study",
          topic |-> IF titled THEN <<"topic", i>> ELSE <<>>,
          summary |-> IF summarized THEN <<"summary", i>> ELSE <<>>,
          topic_id |-> slot.id,
          start_time |-> ClockOf(s),
          end_time |-> ClockOf(s + slot.d),
          allocated_time |->
              CASE slot.shape \in {"study", "nosummary", "qna_titled"} -> Num(slot.d)
                [] slot.shape = "study_null" -> Null
                [] OTHER -> Undefined,
          duration |-> Num(slot.d),
          qna |-> <<>> ]

RawSchedule(start, slots) ==
    [i \in 1..Len(slots) |-> RawRecord(slots[i], i, SlotStart(start, slots, i))]

Slot(shape, id, d) == [shape |-> shape, id |-> id, d |-> d]

BackendIds == {1, 2}

\* Schedules given to the normalizer alone: every shape of record, in any
\* order, from 9:00 AM.
NormSlots ==
    {Slot("study", id, d) : id \in BackendIds, d \in {0, 30}}
    \cup {Slot("qna", id, d) : id \in BackendIds, d \in {0, 10}}
    \cup {Slot(shape, id, 30) :
            shape \in {"study_noalloc", "study_null", "nosummary", "qna_titled"},
            id \in BackendIds}
    \cup {Slot("break", 0, 15)}

NormSchedules ==
    {RawSchedule(540, sl) : sl \in UNION {[1..k -> NormSlots] : k \in 0..MaxRecords}}

\* Schedules of a planner session: topic k of the backend is a study session,
\* a study session followed by its Q&A session, or a study session without
\* allocated_time; the sessions run back to back from 9:00 AM, 11:30 AM or
\* 12:00 AM.
UnitKinds == {"study", "study_qna", "study_noalloc"}

UnitSlots(kind, id) ==
    CASE kind = "study" -> <<Slot("study", id, 30)>>
      [] kind = "study_qna" -> <<Slot("study", id, 30), Slot("qna", id, 10)>>
      [] OTHER -> <<Slot("study_noalloc", id, 30)>>

RECURSIVE UnitsSlots(_, _)
UnitsSlots(units, n) ==
    IF n = 0 THEN <<>>
    ELSE UnitsSlots(units, n - 1) \o UnitSlots(units[n], n)

SessionSchedules ==
    {RawSchedule(start, UnitsSlots(units, Len(units))) :
        start \in {540, 690, 0},
        units \in UNION {[1..k -> UnitKinds] : k \in 0..MaxTopics}}

\* What the user types into the prompt, and the minutes the engine is given.
PromptTexts == {<<>>, <<0>>, <<5>>, <<3, 0>>, <<4, 0>>}
ActualMinutes == {5, 30, 40}

----------------------------------------------------------------------------
\* State machine.

NoCall == [op |-> "none", topicId |-> 0, actualTime |-> 0,
           prev |-> <<>>, schedule |-> <<>>]

\* No quiz on screen (lines 70-71), and no addMinutes call or reply race
\* under observation.
NoQuiz == <<>>
NoResults == [evaluated |-> FALSE, alert |-> FALSE]
NoClockCall == [pc |-> "none"]
NoRace == [pc |-> "none"]

AsideIdle ==
    /\ showQnA = FALSE
    /\ selectedTopicForQnA = NoQuiz
    /\ selectedAnswers = <<>>
    /\ quizResults = NoResults
    /\ clock = NoClockCall
    /\ race = NoRace

Init ==
    /\ studyPlan = <<>>
    /\ currentTopicIndex = 0
    /\ loading = FALSE
    /\ prompt = 0
    /\ inflight = {}
    /\ sent = 0
    /\ responses = 0
    /\ applied = <<>>
    /\ last = NoCall
    /\ AsideIdle

\* Generate Plan pressed, lines 119-153, 571-574: the request goes out.
PressGenerate ==
    /\ ~loading
    /\ prompt = 0
    /\ responses < MaxResponses
    /\ loading' = TRUE
    /\ UNCHANGED <<studyPlan, currentTopicIndex, prompt, inflight, sent,
                   responses, applied, last>>
    /\ UNCHANGED aside

\* The /process reply arrives with a schedule, lines 155-198, 220-222.
ProcessSyllabusReply(schedule) ==
    /\ loading
    /\ studyPlan' = TransformedPlan(schedule)
    /\ loading' = FALSE
    /\ responses' = responses + 1
    /\ applied' = [i \in 1..Len(studyPlan') |-> 0]
    /\ last' = [NoCall EXCEPT !.op = "processSyllabus", !.schedule = schedule]
    /\ UNCHANGED <<currentTopicIndex, prompt, inflight, sent>>
    /\ UNCHANGED aside

\* The /process request fails or carries no schedule, lines 158-160, 209-222.
ProcessSyllabusFail ==
    /\ loading
    /\ loading' = FALSE
    /\ UNCHANGED <<studyPlan, currentTopicIndex, prompt, inflight, sent,
                   responses, applied, last>>
    /\ UNCHANGED aside

\* setStudyPlan(prev => ...), lines 259-276, with the history it leaves.
ApplyUpdate(topicId, actualTime) ==
    /\ studyPlan' = UpdateTopicTiming(studyPlan, topicId, actualTime)
    /\ applied' = [i \in 1..Len(applied) |->
                     IF i - 1 = findIndex(studyPlan, topicId)
                     THEN applied[i] + 1 ELSE applied[i]]
    /\ last' = [NoCall EXCEPT !.op = "updateTopicTiming", !.topicId = topicId,
                              !.actualTime = actualTime, !.prev = studyPlan]

\* Previous, lines 594-603
PreviousTopic ==
    /\ Len(studyPlan) > 0
    /\ prompt = 0
    /\ currentTopicIndex > 0
    /\ currentTopicIndex' = currentTopicIndex - 1
    /\ UNCHANGED <<studyPlan, loading, prompt, inflight, sent, responses,
                   applied, last>>
    /\ UNCHANGED aside

\* Next, lines 608-617
NextTopic ==
    /\ Len(studyPlan) > 0
    /\ prompt = 0
    /\ currentTopicIndex < Len(studyPlan) - 1
    /\ currentTopicIndex' = currentTopicIndex + 1
    /\ UNCHANGED <<studyPlan, loading, prompt, inflight, sent, responses,
                   applied, last>>
    /\ UNCHANGED aside

\* Mark Completed, lines 431-438, and completeTopic up to the prompt,
\* lines 286-292.  The button is on the current card while it is not completed.
PressMarkCompleted ==
    /\ prompt = 0
    /\ currentTopicIndex + 1 \in 1..Len(studyPlan)
    /\ ~studyPlan[currentTopicIndex + 1].completed
    /\ prompt' = studyPlan[currentTopicIndex + 1].topic_id
    /\ UNCHANGED <<studyPlan, currentTopicIndex, loading, inflight, sent,
                   responses, applied, last>>
    /\ UNCHANGED aside

\* Cancel, lines 294-297
PromptCancel ==
    /\ prompt # 0
    /\ prompt' = 0
    /\ UNCHANGED <<studyPlan, currentTopicIndex, loading, inflight, sent,
                   responses, applied, last>>
    /\ UNCHANGED aside

\* Submit, lines 298-306, and updateTopicTiming up to the request, 250-257.
PromptSubmit(text) ==
    LET actualTime == parseInt(IF text = <<>> THEN <<0>> ELSE text)
    IN  /\ prompt # 0
        /\ prompt' = 0
        /\ IF JsPositive(actualTime)
           THEN /\ sent < MaxRequests
                /\ sent' = sent + 1
                /\ inflight' = inflight \cup
                       {[req |-> sent + 1, topic_id |-> prompt,
                         minutes |-> actualTime.v]}
           ELSE UNCHANGED <<inflight, sent>>
        /\ UNCHANGED <<studyPlan, currentTopicIndex, loading, responses,
                       applied, last>>
        /\ UNCHANGED aside

\* The update_timing reply arrives, lines 259-278.
UpdateTimingReply(r) ==
    /\ r \in inflight
    /\ inflight' = inflight \ {r}
    /\ ApplyUpdate(r.topic_id, r.minutes)
    /\ UNCHANGED <<currentTopicIndex, loading, prompt, sent, responses>>
    /\ UNCHANGED aside

\* The update_timing request fails, lines 279-283.
UpdateTimingFail(r) ==
    /\ r \in inflight
    /\ inflight' = inflight \ {r}
    /\ UNCHANGED <<studyPlan, currentTopicIndex, loading, prompt, sent,
                   responses, applied, last>>
    /\ UNCHANGED aside

\* The planner session: one plan, the screen and the network.
Next ==
    \/ PressGenerate
    \/ \E schedule \in SessionSchedules : ProcessSyllabusReply(schedule)
    \/ ProcessSyllabusFail
    \/ PreviousTopic
    \/ NextTopic
    \/ PressMarkCompleted
    \/ PromptCancel
    \/ \E text \in PromptTexts : PromptSubmit(text)
    \/ \E r \in inflight : UpdateTimingReply(r)
    \/ \E r \in inflight : UpdateTimingFail(r)

Spec == Init /\ [][Next]_vars

\* The engine alone: from any normalized plan, the updater applied to any
\* topic id and any positive minutes, in any order.  An id outside the plan
\* reaches the updater when a reply outlives the plan its request was made
\* for.
InitEngine ==
    /\ studyPlan \in {TransformedPlan(schedule) : schedule \in SessionSchedules}
    /\ currentTopicIndex = 0
    /\ loading = FALSE
    /\ prompt = 0
    /\ inflight = {}
    /\ sent = 0
    /\ responses = 1
    /\ applied = [i \in 1..Len(studyPlan) |-> 0]
    /\ last = NoCall
    /\ AsideIdle

RecordCompletion(topicId, actualTime) ==
    /\ sent < MaxCompletions
    /\ sent' = sent + 1
    /\ ApplyUpdate(topicId, actualTime)
    /\ UNCHANGED <<currentTopicIndex, loading, prompt, inflight, responses>>
    /\ UNCHANGED aside

NextEngine ==
    \E topicId \in 1..(MaxTopics + 1), actualTime \in ActualMinutes :
        RecordCompletion(topicId, actualTime)

SpecEngine == InitEngine /\ [][NextEngine]_vars

\* The normalizer alone, over every shape of record: the /process request
\* is out and its reply carries any schedule.
InitNorm ==
    /\ studyPlan = <<>>
    /\ currentTopicIndex = 0
    /\ loading = TRUE
    /\ prompt = 0
    /\ inflight = {}
    /\ sent = 0
    /\ responses = 0
    /\ applied = <<>>
    /\ last = NoCall
    /\ AsideIdle

NextNorm ==
    /\ loading
    /\ \E schedule \in NormSchedules : ProcessSyllabusReply(schedule)

SpecNorm == InitNorm /\ [][NextNorm]_vars

\* addMinutes alone: the helper applied to a clock string and a number of
\* minutes, and then to its own result with the minutes negated.
ClockStrings ==
    {Clock(h, m, p) : h \in 1..12, m \in {0, 5, 30, 59}, p \in {"AM", "PM"}}

Deltas == {0 - 1435, 0 - 725, 0 - 720, 0 - 65, 0 - 60, 0 - 30, 0 - 5, 0,
           5, 30, 60, 65, 720, 725, 1435}

InitClock ==
    /\ studyPlan = <<>>
    /\ currentTopicIndex = 0
    /\ loading = FALSE
    /\ prompt = 0
    /\ inflight = {}
    /\ sent = 0
    /\ responses = 0
    /\ applied = <<>>
    /\ last = NoCall
    /\ showQnA = FALSE
    /\ selectedTopicForQnA = NoQuiz
    /\ selectedAnswers = <<>>
    /\ quizResults = NoResults
    /\ race = NoRace
    /\ clock \in {[pc |-> "call", timeStr |-> t, minutes |-> d,
                   result |-> t, back |-> t] :
                     t \in ClockStrings, d \in Deltas}

\* addMinutes(timeStr, minutes), lines 314-323
AddMinutesCall ==
    /\ clock.pc = "call"
    /\ clock' = [clock EXCEPT !.pc = "added",
                              !.result = addMinutes(clock.timeStr, clock.minutes)]
    /\ UNCHANGED <<studyPlan, currentTopicIndex, loading, prompt, inflight,
                   sent, responses, applied, last, showQnA,
                   selectedTopicForQnA, selectedAnswers, quizResults, race>>

\* addMinutes(result, -minutes), lines 314-323
AddMinutesBack ==
    /\ clock.pc = "added"
    /\ clock' = [clock EXCEPT !.pc = "back",
                              !.back = addMinutes(clock.result, 0 - clock.minutes)]
    /\ UNCHANGED <<studyPlan, currentTopicIndex, loading, prompt, inflight,
                   sent, responses, applied, last, showQnA,
                   selectedTopicForQnA, selectedAnswers, quizResults, race>>

NextClock == AddMinutesCall \/ AddMinutesBack

SpecClock == InitClock /\ [][NextClock]_vars

\* The quiz alone: Start Quiz has just opened the modal on a topic with any
\* quiz; answers are tapped in any order and evaluateAnswers is called on
\* whatever has been answered.  (The Evaluate button, line 501, calls it
\* only once every question has an answer.)
Question(i, labels, correct) ==
    [question |-> <<"question", i>>,
     options |-> [k \in 1..4 |-> [label |-> labels[k], text |-> <<"option", k>>]],
     correct |-> correct]

Quizzes ==
    UNION {
        {[i \in 1..n |-> Question(i, style[i], key[i])] :
            style \in [1..n -> {<<"a", "b", "c", "d">>, <<"A", "B", "C", "D">>}],
            key \in [1..n -> {"a", "d"}]}
        : n \in 0..MaxQuestions}

InitQuiz ==
    /\ studyPlan = <<>>
    /\ currentTopicIndex = 0
    /\ loading = FALSE
    /\ prompt = 0
    /\ inflight = {}
    /\ sent = 0
    /\ responses = 0
    /\ applied = <<>>
    /\ last = NoCall
    /\ clock = NoClockCall
    /\ race = NoRace
    /\ showQnA = TRUE
    /\ selectedTopicForQnA \in {[topic |-> <<"topic", 1>>, qna |-> quiz] :
                                  quiz \in Quizzes}
    /\ selectedAnswers = <<>>
    /\ quizResults = NoResults

quizFrame == <<studyPlan, currentTopicIndex, loading, prompt, inflight, sent,
               responses, applied, last, clock, race>>

\* An option is tapped, lines 332-337 and 475-487.
HandleAnswerSelect(questionIndex, k) ==
    /\ showQnA
    /\ ~quizResults.alert
    /\ questionIndex + 1 \in 1..Len(selectedTopicForQnA.qna)
    /\ selectedAnswers' =
          WithAnswer(selectedAnswers, questionIndex,
                     OptionKey(selectedTopicForQnA.qna[questionIndex + 1].options[k]))
    /\ UNCHANGED <<showQnA, selectedTopicForQnA, quizResults>>
    /\ UNCHANGED quizFrame

\* evaluateAnswers, lines 339-371: the results and the Quiz Results alert.
EvaluateAnswers ==
    /\ showQnA
    /\ ~quizResults.alert
    /\ selectedTopicForQnA # NoQuiz
    /\ quizResults' =
          [evaluated |-> TRUE, alert |-> TRUE, answers |-> selectedAnswers,
           score |-> EvaluateQuiz(selectedTopicForQnA.qna, selectedAnswers).score,
           results |-> EvaluateQuiz(selectedTopicForQnA.qna, selectedAnswers).results]
    /\ UNCHANGED <<showQnA, selectedTopicForQnA, selectedAnswers>>
    /\ UNCHANGED quizFrame

\* Review Answers, lines 358-361 and 373-381: the alert gives way to the
\* detailed one and the quiz stays open.
ReviewAnswers ==
    /\ quizResults.alert
    /\ quizResults' = [quizResults EXCEPT !.alert = FALSE]
    /\ UNCHANGED <<showQnA, selectedTopicForQnA, selectedAnswers>>
    /\ UNCHANGED quizFrame

\* Continue, lines 362-368
ContinueAfterQuiz ==
    /\ quizResults.alert
    /\ quizResults' = [quizResults EXCEPT !.alert = FALSE]
    /\ showQnA' = FALSE
    /\ selectedAnswers' = <<>>
    /\ UNCHANGED selectedTopicForQnA
    /\ UNCHANGED quizFrame

\* The close icon of the modal, line 452
CloseQuiz ==
    /\ showQnA
    /\ ~quizResults.alert
    /\ showQnA' = FALSE
    /\ UNCHANGED <<selectedTopicForQnA, selectedAnswers, quizResults>>
    /\ UNCHANGED quizFrame

NextQuiz ==
    \/ \E questionIndex \in 0..(MaxQuestions - 1), k \in 1..4 :
          HandleAnswerSelect(questionIndex, k)
    \/ EvaluateAnswers
    \/ ReviewAnswers
    \/ ContinueAfterQuiz
    \/ CloseQuiz

SpecQuiz == InitQuiz /\ [][NextQuiz]_vars

\* Two completions in flight: Mark Completed was submitted for topic i,
\* then, before its reply, for a later topic j; the two replies arrive in
\* either order.  race keeps the plan and the two requests.
InitRace ==
    /\ currentTopicIndex = 0
    /\ loading = FALSE
    /\ prompt = 0
    /\ sent = 2
    /\ responses = 1
    /\ last = NoCall
    /\ showQnA = FALSE
    /\ selectedTopicForQnA = NoQuiz
    /\ selectedAnswers = <<>>
    /\ quizResults = NoResults
    /\ clock = NoClockCall
    /\ studyPlan \in {TransformedPlan(schedule) : schedule \in SessionSchedules}
    /\ applied = [k \in 1..Len(studyPlan) |-> 0]
    /\ \E i \in 1..Len(studyPlan), j \in 1..Len(studyPlan),
          ai \in ActualMinutes, aj \in ActualMinutes :
          /\ i < j
          /\ race = [pc |-> "race", plan |-> studyPlan,
                     first |-> [req |-> 1, topic_id |-> studyPlan[i].topic_id,
                                minutes |-> ai],
                     second |-> [req |-> 2, topic_id |-> studyPlan[j].topic_id,
                                 minutes |-> aj]]
          /\ inflight = {race.first, race.second}

NextRace == \E r \in inflight : UpdateTimingReply(r)

SpecRace == InitRace /\ [][NextRace]_vars

----------------------------------------------------------------------------
\* Properties of the completion update.  They read the history variable
\* last: the plan before the call (last.prev), the call's arguments, and the
\* plan after it (studyPlan).

UpdateApplied == last.op = "updateTopicTiming"

KnownTopic == \E i \in 1..Len(last.prev) : last.prev[i].topic_id = last.topicId

\* Position in the plan of the topic the last call named.
TopicPos == CHOOSE i \in 1..Len(last.prev) : last.prev[i].topic_id = last.topicId

OldAllocated == last.prev[TopicPos].allocated_time

EarlyFinish ==
    /\ UpdateApplied /\ KnownTopic
    /\ IsNum(OldAllocated) /\ last.actualTime < OldAllocated.v

OverrunOrOnTime ==
    /\ UpdateApplied /\ KnownTopic
    /\ IsNum(OldAllocated) /\ last.actualTime >= OldAllocated.v

\* new is the clock value by minutes before old
MovedEarlier(old, new, by) ==
    /\ ValidClock(new)
    /\ ClockMinutes(new) = (ClockMinutes(old) - by) % 1440

SameTimes(a, b) == a.start_time = b.start_time /\ a.end_time = b.end_time

\* C1: when a completion is applied to an existing topic k with fewer minutes
\* than its allocated_time, every later topic's start_time and end_time are
\* the clock values (old allocated_time - actual minutes) earlier, and topic
\* k's own times are unchanged.
C1_EarlyFinishShiftsLater ==
    EarlyFinish =>
        /\ Len(studyPlan) = Len(last.prev)
        /\ SameTimes(studyPlan[TopicPos], last.prev[TopicPos])
        /\ \A i \in (TopicPos + 1)..Len(last.prev) :
              /\ MovedEarlier(last.prev[i].start_time, studyPlan[i].start_time,
                              OldAllocated.v - last.actualTime)
              /\ MovedEarlier(last.prev[i].end_time, studyPlan[i].end_time,
                              OldAllocated.v - last.actualTime)

\* C2: when a completion is applied to an existing topic with at least its
\* allocated_time, no topic's start_time or end_time changes.
C2_OverrunShiftsNothing ==
    OverrunOrOnTime =>
        /\ Len(studyPlan) = Len(last.prev)
        /\ \A i \in 1..Len(last.prev) : SameTimes(studyPlan[i], last.prev[i])

\* An overrun was recorded on a topic that has later topics.
C2_Witness ==
    /\ OverrunOrOnTime
    /\ last.actualTime > OldAllocated.v
    /\ TopicPos < Len(studyPlan)

\* C3: a completion of topic k changes nothing but k's allocated_time and
\* completed flag and the start_time and end_time of the topics after k:
\* the topics before k, every other field of k and of the later topics
\* (sessions, suggested_time, topic_id among them), and the plan's length
\* and order stay as they were.
C3_CompletionFrame ==
    (UpdateApplied /\ KnownTopic) =>
        /\ Len(studyPlan) = Len(last.prev)
        /\ \A i \in 1..Len(last.prev) :
              CASE i < TopicPos -> studyPlan[i] = last.prev[i]
                [] i = TopicPos ->
                     studyPlan[i] =
                       [last.prev[i] EXCEPT
                          !.allocated_time = studyPlan[i].allocated_time,
                          !.completed = studyPlan[i].completed]
                [] OTHER ->
                     studyPlan[i] =
                       [last.prev[i] EXCEPT
                          !.start_time = studyPlan[i].start_time,
                          !.end_time = studyPlan[i].end_time]

\* A second completion, an early finish of a topic with topics before and
\* after it, has been applied.
C3_Witness ==
    /\ EarlyFinish
    /\ sent = 2
    /\ TopicPos > 1
    /\ TopicPos < Len(studyPlan)
    /\ studyPlan[TopicPos + 1].start_time # last.prev[TopicPos + 1].start_time

\* C4: a completion whose topicId matches no topic_id of the plan leaves
\* every field of every topic unchanged.
C4_UnknownTopicIsNoOp ==
    (UpdateApplied /\ ~KnownTopic) => studyPlan = last.prev

\* A completion for an id that is not in a plan of two topics was applied.
C4_Witness ==
    /\ UpdateApplied /\ ~KnownTopic
    /\ Len(last.prev) = 2
    /\ last.topicId = 3

----------------------------------------------------------------------------
\* Properties of the normalizer.  They read last.schedule, the raw schedule
\* of the last /process reply, and studyPlan right after it.

Normalized == last.op = "processSyllabus"

\* The records with a non-empty topic and a non-empty summary.
QualifyingIdx ==
    {j \in 1..Len(last.schedule) :
        last.schedule[j].topic # <<>> /\ last.schedule[j].summary # <<>>}

\* The i-th qualifying record in input order.
Source(i) ==
    CHOOSE j \in QualifyingIdx : Cardinality({k \in QualifyingIdx : k < j}) = i - 1

\* The Q&A records carrying the backend topic_id of record j.
Companions(j) ==
    {r \in 1..Len(last.schedule) :
        /\ last.schedule[r].topic_id = last.schedule[j].topic_id
        /\ last.schedule[r].type = "qna"}

\* C5: a raw schedule with N records that have a non-empty topic and a
\* non-empty summary gives a plan of exactly N topics; the i-th topic has
\* topic_id i and is built from the i-th such record in input order,
\* whatever the backend topic_id values are.
C5_DenseRenumbering ==
    Normalized =>
        /\ Len(studyPlan) = Cardinality(QualifyingIdx)
        /\ \A i \in 1..Len(studyPlan) :
              i <= Cardinality(QualifyingIdx) =>
                /\ studyPlan[i].topic_id = i
                /\ studyPlan[i].topic = last.schedule[Source(i)].topic
                /\ studyPlan[i].summary = last.schedule[Source(i)].summary
                /\ studyPlan[i].start_time = last.schedule[Source(i)].start_time

\* Three records, the middle one dropped, the kept ones carrying backend ids
\* 2 and 1 in that order.
C5_Witness ==
    /\ Normalized
    /\ Len(last.schedule) = 3
    /\ QualifyingIdx = {1, 3}
    /\ last.schedule[1].topic_id = 2
    /\ last.schedule[3].topic_id = 1
    /\ Len(studyPlan) = 2

C7_SessionSum ==
    Normalized =>
        \A i \in 1..Len(studyPlan) :
            LET topic == studyPlan[i]
                study == topic.sessions[1].duration
                qna == IF Len(topic.sessions) = 2
                       THEN topic.sessions[2].duration ELSE Num(0)
            IN  /\ IsNum(study) /\ IsNum(qna) /\ IsNum(topic.allocated_time)
                /\ study.v + qna.v = topic.allocated_time.v

----------------------------------------------------------------------------
\* Properties of the plan over a planner session.

\* C8: in every reachable state every topic's allocated_time is a
\* non-negative integer (a missing study duration counting as 0).
C8_AllocatedNonNegative ==
    \A i \in 1..Len(studyPlan) :
        /\ IsNum(studyPlan[i].allocated_time)
        /\ studyPlan[i].allocated_time.v >= 0

\* C9: the topics' start_time values are non-decreasing in plan order after
\* any sequence of completions of a plan that was normalized back to back.
C9_ChronologicalOrder ==
    \A i \in 1..(Len(studyPlan) - 1) :
        ClockMinutes(studyPlan[i].start_time)
            <= ClockMinutes(studyPlan[i + 1].start_time)

\* C10: the completion update is applied to a topic at most once, and a
\* topic is completed exactly when the update has been applied to it.
C10_CompletedOnce ==
    \A i \in 1..Len(studyPlan) :
        /\ applied[i] <= 1
        /\ studyPlan[i].completed <=> applied[i] >= 1

----------------------------------------------------------------------------
\* Properties of addMinutes.  They read the history variable clock.

\* Minutes after midnight the call should arrive at.
ClockTarget == ClockMinutes(clock.timeStr) + clock.minutes

\* The start and the target lie strictly inside the same half of the day, so
\* neither midnight nor noon is touched or crossed, in either direction.
SameHalfDay ==
    \/ ClockMinutes(clock.timeStr) \in 1..719 /\ ClockTarget \in 1..719
    \/ ClockMinutes(clock.timeStr) \in 721..1439 /\ ClockTarget \in 721..1439

\* C11: addMinutes(addMinutes(t, d), -d) = t for every valid 12-hour clock
\* string t and every d that crosses no AM/PM boundary (0 or 720 minutes).
C11_RoundTrip ==
    (clock.pc = "back" /\ ValidClock(clock.timeStr) /\ SameHalfDay) =>
        clock.back = clock.timeStr

\* C12: for every valid t and every delta with 0 <= m(t) + delta < 1440,
\* addMinutes(t, delta) is the 12-hour string of m(t) + delta.
C12_MatchesReference ==
    (/\ clock.pc \in {"added", "back"}
     /\ ValidClock(clock.timeStr)
     /\ ClockTarget >= 0 /\ ClockTarget < 1440) =>
        clock.result = ClockOf(ClockTarget)

----------------------------------------------------------------------------
\* Properties of the quiz evaluation.  They read quizResults, which keeps
\* the answers the last evaluateAnswers call was made with.

Unanswered ==
    {i \in 0..(Len(selectedTopicForQnA.qna) - 1) : i \notin DOMAIN quizResults.answers}

\* C13: for a quiz of Q questions and any answers to a subset of them, the
\* score is the number of indices whose answer equals the question's correct
\* key; every unanswered index is marked isCorrect = false, so answers that
\* miss an entry score at most Q - 1.
C13_EvaluationTotal ==
    quizResults.evaluated =>
        LET quiz == selectedTopicForQnA.qna
            answers == quizResults.answers
        IN  /\ Len(quizResults.results) = Len(quiz)
            /\ quizResults.score =
                  Cardinality({i \in DOMAIN answers : answers[i] = quiz[i + 1].correct})
            /\ \A i \in Unanswered : ~quizResults.results[i + 1].isCorrect
            /\ Unanswered # {} => quizResults.score <= Len(quiz) - 1

\* Two questions, the first answered with its correct key, the second not
\* answered: evaluated to a score of 1.
C13_Witness ==
    /\ quizResults.evaluated
    /\ Len(selectedTopicForQnA.qna) = 2
    /\ Unanswered = {1}
    /\ quizResults.answers[0] = selectedTopicForQnA.qna[1].correct
    /\ quizResults.score = 1

----------------------------------------------------------------------------
\* Properties of two completions in flight.  They read race: the plan the
\* two requests were made on and the requests.

\* The plan after the reply to request a and then the reply to request b.
AppliedInOrder(plan, a, b) ==
    UpdateTopicTiming(UpdateTopicTiming(plan, a.topic_id, a.minutes),
                      b.topic_id, b.minutes)

\* Every start and end time of the plan is between 1:00 AM and 11:59 PM.
InDaytime(plan) ==
    \A k \in 1..Len(plan) :
        /\ ValidClock(plan[k].start_time)
        /\ ValidClock(plan[k].end_time)
        /\ ClockMinutes(plan[k].start_time) \in 60..1439
        /\ ClockMinutes(plan[k].end_time) \in 60..1439

\* ... in the plan, after either reply alone, and after both in either order.
InDaytimeThroughout ==
    /\ InDaytime(race.plan)
    /\ InDaytime(UpdateTopicTiming(race.plan, race.first.topic_id, race.first.minutes))
    /\ InDaytime(UpdateTopicTiming(race.plan, race.second.topic_id, race.second.minutes))
    /\ InDaytime(AppliedInOrder(race.plan, race.first, race.second))
    /\ InDaytime(AppliedInOrder(race.plan, race.second, race.first))

BothReplied == race.pc = "race" /\ inflight = {}

\* The minutes request r saves on the plan the requests were made on.
RaceSaved(r) ==
    JsSub(race.plan[findIndex(race.plan, r.topic_id) + 1].allocated_time,
          Num(r.minutes))

\* C14: with the completions of two topics i < j in flight together, the
\* plan after both replies is the same whichever reply was applied first
\* (allocated_time, completed, start_time and end_time of every topic),
\* provided every start and end time stays between 1:00 AM and 11:59 PM.
C14_ReplyOrderIndependent ==
    (BothReplied /\ InDaytimeThroughout) =>
        /\ studyPlan = AppliedInOrder(race.plan, race.first, race.second)
        /\ studyPlan = AppliedInOrder(race.plan, race.second, race.first)

\* The reply for the later topic was applied first, both topics finished
\* early by different amounts, and a third topic moved by both.
C14_Witness ==
    /\ BothReplied
    /\ InDaytimeThroughout
    /\ last.topicId = race.first.topic_id
    /\ FinishedEarly(RaceSaved(race.first))
    /\ FinishedEarly(RaceSaved(race.second))
    /\ RaceSaved(race.first) # RaceSaved(race.second)
    /\ Len(studyPlan) > findIndex(race.plan, race.second.topic_id) + 1
    /\ ClockMinutes(studyPlan[Len(studyPlan)].start_time) =
          ClockMinutes(race.plan[Len(studyPlan)].start_time)
              - RaceSaved(race.first).v - RaceSaved(race.second).v

====
